---- MODULE Spec2Model ----
(***************************************************************************)
(* State-machine model of the PaymentGateway Soroban contract              *)
(* (contracts/payment_gateway/src/lib.rs).                                 *)
(*                                                                         *)
(* The state is the contract's instance storage and the ledger clock.      *)
(* Every entry point is an operator that computes, from the storage, the   *)
(* clock and its arguments, the outcome of one invocation: the result      *)
(* ("ok" or the panic message), the trf_from calls made on the token, the  *)
(* events published and the instance storage left behind.  An invocation   *)
(* that panics leaves the storage as it found it.  The action of an entry  *)
(* point installs the storage of its outcome.                              *)
(*                                                                         *)
(* Two observers record what the contract has shown to the outside: the    *)
(* ids it has published (issued, kept under Spec) and the subscription     *)
(* transfers it has had the token make (charges, kept under BillingSpec).  *)
(*                                                                         *)
(* An Option<T> is a sequence: <<>> for None, <<v>> for Some(v).           *)
(* The invoker argument of a handler is the address whose require_auth()   *)
(* passes; an invocation that fails require_auth() traps like any panic.   *)
(* Timestamps stay far below 2^64, so last_payment + interval does not     *)
(* overflow.                                                               *)
(***************************************************************************)
EXTENDS Integers, Sequences, FiniteSets, TLC

\* ---------------------------------------------------------------- bounds
\* Largest value the id counters are driven to (the contract's counters are
\* u32 and are not driven to overflow here).
MaxCtr == 1
\* Largest ledger timestamp.
MaxTime == 2

\* ---------------------------------------------------------------- inputs
\* Accounts that invoke the contract, and the token contract handed to init.
\* The handlers never branch on the token address.
Address == {"a1", "a2"}
Tokens == {"t1"}
Amounts == {-1, 0, 1}
Intervals == {0, 1}
Symbols == {"sym"}
\* Ids passed to the handlers: every id a counter can have issued, and one
\* beyond.
Ids == 1 .. MaxCtr + 1

\* ------------------------------------------------------ storage keys
OWNER == "OWNER"
TOKEN == "TOKEN"
MERCH == "MERCH"
LCTR == "LCTR"
PCTR == "PCTR"
SCTR == "SCTR"
PLINK == "PLINK"
SPLAN == "SPLAN"
SUBS == "SUBS"

\* ---------------------------------------------------------------- state
VARIABLES
    instance,   \* env.storage().instance(): the entries present, by key
    now,        \* env.ledger().timestamp()
    issued,     \* ids published so far by PLCr / SPCr / Subd events
    charges     \* per subscription key, for the record stored there: the
                \* interval of its plan when subscribe stored it, and the
                \* ledger times of the transfers made for it since

vars == <<instance, now, issued, charges>>

\* ---------------------------------------------------------------- helpers
\* env.storage().instance().get(&key) : Option<V>
get(key) == IF key \in DOMAIN instance THEN <<instance[key]>> ELSE <<>>

\* env.storage().instance().set(&key, &val) applied to the storage st
set(st, key, val) == [k \in (DOMAIN st) \cup {key} |-> IF k = key THEN val ELSE st[k]]

\* Option::unwrap_or
unwrap_or(opt, default) == IF opt = <<>> THEN default ELSE opt[1]

\* Map::new(&env)
Map_new == [k \in {} |-> {}]

\* Map::set(k, v)
Map_set(m, k, v) == [x \in (DOMAIN m) \cup {k} |-> IF x = k THEN v ELSE m[x]]

\* Vec::contains
contains(v, x) == \E i \in 1 .. Len(v) : v[i] = x

\* Timepoint::from_unix / Timepoint::to_unix
from_unix(t) == [unix |-> t]
to_unix(tp) == tp.unix

\* The outcome of an invocation that panics with msg: no write survives.
Trap(msg) ==
    [result |-> msg, transfers |-> <<>>, events |-> <<>>, instance |-> instance]

\* The outcome of an invocation that returns.
Return(transfers, events, st) ==
    [result |-> "ok", transfers |-> transfers, events |-> events, instance |-> st]

\* ---------------------------------------------------------------- registry
\* pub fn init: it writes the six entries whatever the storage holds.
init(invoker, token) ==
    Return(<<>>, <<>>,
           set(set(set(set(set(set(instance, OWNER, invoker), TOKEN, token),
                           MERCH, <<>>), LCTR, 0), PCTR, 0), SCTR, 0))

\* fn only_owner: "ok", or the panic message.
only_owner(invoker) ==
    LET o == get(OWNER)
    IN  IF o = <<>> THEN "OWNER not set"
        ELSE IF ~(invoker = o[1]) THEN "only owner"
        ELSE "ok"

\* pub fn add_merchant
add_merchant(invoker, merchant) ==
    LET merchants == unwrap_or(get(MERCH), <<>>)
    IN  IF only_owner(invoker) # "ok" THEN Trap(only_owner(invoker))
        ELSE IF contains(merchants, merchant) THEN Trap("already authorized")
        ELSE Return(<<>>, << <<"MAdd", merchant>> >>,
                    set(instance, MERCH, Append(merchants, merchant)))

\* The manual loop of remove_merchant: new_merchants after elements i.. of
\* merchants have been visited.
RECURSIVE remove_loop(_, _, _, _)
remove_loop(merchants, merchant, i, new_merchants) ==
    IF i > Len(merchants) THEN new_merchants
    ELSE remove_loop(merchants, merchant, i + 1,
                     IF merchants[i] # merchant
                     THEN Append(new_merchants, merchants[i])
                     ELSE new_merchants)

\* remove_merchant that also switches off the links of the removed merchant.
remove_merchant_cascade(invoker, merchant) ==
    LET merchants == unwrap_or(get(MERCH), <<>>)
        links == unwrap_or(get(PLINK), Map_new)
    IN  IF only_owner(invoker) # "ok" THEN Trap(only_owner(invoker))
        ELSE IF ~contains(merchants, merchant) THEN Trap("not authorized")
        ELSE Return(<<>>, << <<"MRem", merchant>> >>,
                    set(set(instance, MERCH,
                            remove_loop(merchants, merchant, 1, <<>>)),
                        PLINK,
                        [id \in DOMAIN links |->
                            IF links[id].merchant = merchant
                            THEN [links[id] EXCEPT !.active = FALSE]
                            ELSE links[id]]))

\* pub fn remove_merchant
remove_merchant(invoker, merchant) ==
    LET merchants == unwrap_or(get(MERCH), <<>>)
    IN  IF only_owner(invoker) # "ok" THEN Trap(only_owner(invoker))
        ELSE IF ~contains(merchants, merchant) THEN Trap("not authorized")
        ELSE Return(<<>>, << <<"MRem", merchant>> >>,
                    set(instance, MERCH, remove_loop(merchants, merchant, 1, <<>>)))

\* fn is_merchant
is_merchant(who) == contains(unwrap_or(get(MERCH), <<>>), who)

\* ---------------------------------------------------------------- token call
\* invoke_contract as if the handler ran on after a failed token call (the
\* result of try_invoke_contract dropped).
invoke_contract_ignoring_failure(transferOk, transfer, events, before, after) ==
    [result |-> IF transferOk THEN "ok" ELSE "transfer failed",
     transfers |-> <<transfer>>, events |-> events, instance |-> after]

\* env.invoke_contract::<()>(&token, "trf_from", [payer, payee, amount]) made
\* by a handler whose writes, were it to run to its end, leave the storage
\* `after`.  When the token call fails the host traps the invocation and the
\* storage stays `before`.
invoke_contract(transferOk, transfer, events, before, after) ==
    IF transferOk
    THEN [result |-> "ok", transfers |-> <<transfer>>, events |-> events,
          instance |-> after]
    ELSE [result |-> "transfer failed", transfers |-> <<transfer>>,
          events |-> <<>>, instance |-> before]

\* ---------------------------------------------------------------- links
\* create_payment_link with the amount test written amount >= 0.
create_payment_link_zero_amount(invoker, amount, description) ==
    LET ctr == unwrap_or(get(LCTR), 0) + 1
        pl == [merchant |-> invoker, amount |-> amount, active |-> TRUE,
               description |-> description]
        links == unwrap_or(get(PLINK), Map_new)
    IN  IF ~is_merchant(invoker) THEN Trap("not authorized")
        ELSE IF ~(amount >= 0) THEN Trap("amount>0")
        ELSE Return(<<>>, << <<"PLCr", ctr>> >>,
                    set(set(instance, LCTR, ctr), PLINK, Map_set(links, ctr, pl)))

\* pub fn create_payment_link
create_payment_link(invoker, amount, description) ==
    LET ctr == unwrap_or(get(LCTR), 0) + 1
        pl == [merchant |-> invoker, amount |-> amount, active |-> TRUE,
               description |-> description]
        links == unwrap_or(get(PLINK), Map_new)
    IN  IF ~is_merchant(invoker) THEN Trap("not authorized")
        ELSE IF ~(amount > 0) THEN Trap("amount>0")
        ELSE Return(<<>>, << <<"PLCr", ctr>> >>,
                    set(set(instance, LCTR, ctr), PLINK, Map_set(links, ctr, pl)))

\* process_payment without the assert on link.active.
process_payment_no_active_check(invoker, link_id, transferOk) ==
    LET links == unwrap_or(get(PLINK), Map_new)
    IN  IF link_id \notin DOMAIN links THEN Trap("link not found")
        ELSE IF get(TOKEN) = <<>> THEN Trap("Token")
        ELSE invoke_contract(transferOk,
                 <<invoker, links[link_id].merchant, links[link_id].amount>>,
                 << <<"Payd", link_id>> >>, instance, instance)

\* process_payment that switches the link off once it has been paid.
process_payment_single_use(invoker, link_id, transferOk) ==
    LET links == unwrap_or(get(PLINK), Map_new)
    IN  IF link_id \notin DOMAIN links THEN Trap("link not found")
        ELSE IF ~links[link_id].active THEN Trap("inactive link")
        ELSE IF get(TOKEN) = <<>> THEN Trap("Token")
        ELSE invoke_contract(transferOk,
                 <<invoker, links[link_id].merchant, links[link_id].amount>>,
                 << <<"Payd", link_id>> >>, instance,
                 set(instance, PLINK,
                     Map_set(links, link_id,
                             [links[link_id] EXCEPT !.active = FALSE])))

\* pub fn process_payment
process_payment(invoker, link_id, transferOk) ==
    LET links == unwrap_or(get(PLINK), Map_new)
    IN  IF link_id \notin DOMAIN links THEN Trap("link not found")
        ELSE IF ~links[link_id].active THEN Trap("inactive link")
        ELSE IF get(TOKEN) = <<>> THEN Trap("Token")
        ELSE invoke_contract(transferOk,
                 <<invoker, links[link_id].merchant, links[link_id].amount>>,
                 << <<"Payd", link_id>> >>, instance, instance)

\* deactivate_payment_link open to every registered merchant.
deactivate_payment_link_any_merchant(invoker, link_id) ==
    LET links == unwrap_or(get(PLINK), Map_new)
    IN  IF link_id \notin DOMAIN links THEN Trap("no link")
        ELSE IF ~is_merchant(invoker) THEN Trap("not merchant")
        ELSE IF ~links[link_id].active THEN Trap("already inactive")
        ELSE Return(<<>>, <<>>,
                    set(instance, PLINK,
                        Map_set(links, link_id,
                                [links[link_id] EXCEPT !.active = FALSE])))

\* pub fn deactivate_payment_link
deactivate_payment_link(invoker, link_id) ==
    LET links == unwrap_or(get(PLINK), Map_new)
    IN  IF link_id \notin DOMAIN links THEN Trap("no link")
        ELSE IF ~(links[link_id].merchant = invoker) THEN Trap("not merchant")
        ELSE IF ~links[link_id].active THEN Trap("already inactive")
        ELSE Return(<<>>, <<>>,
                    set(instance, PLINK,
                        Map_set(links, link_id,
                                [links[link_id] EXCEPT !.active = FALSE])))

\* ---------------------------------------------------------------- plans
\* pub fn create_subscription_plan
create_subscription_plan(invoker, amount, interval, name) ==
    LET ctr == unwrap_or(get(PCTR), 0) + 1
        sp == [merchant |-> invoker, amount |-> amount, interval |-> interval,
               active |-> TRUE, name |-> name]
        plans == unwrap_or(get(SPLAN), Map_new)
    IN  IF ~is_merchant(invoker) THEN Trap("not authorized")
        ELSE IF ~(amount > 0) THEN Trap("amount>0")
        ELSE IF ~(interval > 0) THEN Trap("interval>0")
        ELSE Return(<<>>, << <<"SPCr", ctr>> >>,
                    set(set(instance, PCTR, ctr), SPLAN, Map_set(plans, ctr, sp)))

\* pub fn deactivate_subscription_plan
deactivate_subscription_plan(invoker, plan_id) ==
    LET plans == unwrap_or(get(SPLAN), Map_new)
    IN  IF plan_id \notin DOMAIN plans THEN Trap("no plan")
        ELSE IF ~(plans[plan_id].merchant = invoker) THEN Trap("not merchant")
        ELSE IF ~plans[plan_id].active THEN Trap("already inactive")
        ELSE Return(<<>>, <<>>,
                    set(instance, SPLAN,
                        Map_set(plans, plan_id,
                                [plans[plan_id] EXCEPT !.active = FALSE])))

\* ---------------------------------------------------------------- subscriptions
\* pub fn subscribe: SCTR and SUBS are written before the token call.
subscribe(invoker, plan_id, transferOk) ==
    LET plans == unwrap_or(get(SPLAN), Map_new)
        ctr == unwrap_or(get(SCTR), 0) + 1
        sub == [subscriber |-> invoker, plan_id |-> plan_id,
                start_time |-> from_unix(now), last_payment |-> from_unix(now),
                active |-> TRUE]
        subs == unwrap_or(get(SUBS), Map_new)
    IN  IF plan_id \notin DOMAIN plans THEN Trap("plan not found")
        ELSE IF ~plans[plan_id].active THEN Trap("plan not active")
        ELSE IF get(TOKEN) = <<>> THEN Trap("Token")
        ELSE invoke_contract(transferOk,
                 <<invoker, plans[plan_id].merchant, plans[plan_id].amount>>,
                 << <<"Subd", ctr>>, <<"SPay", ctr>> >>,
                 instance,
                 set(set(instance, SCTR, ctr), SUBS,
                     Map_set(subs, <<invoker, ctr>>, sub)))

\* The due test written with > in place of >=.
is_due_strict(sub, plan, t) ==
    LET next_due == from_unix(to_unix(sub.last_payment) + plan.interval)
    IN  to_unix(from_unix(t)) > to_unix(next_due)

\* The due test of process_subscription_payment at ledger time t.
is_due(sub, plan, t) ==
    LET next_due == from_unix(to_unix(sub.last_payment) + plan.interval)
    IN  to_unix(from_unix(t)) >= to_unix(next_due)

\* process_subscription_payment that charges whoever invokes it.
process_subscription_payment_invoker_pays(invoker, subscriber, subscription_id, transferOk) ==
    LET subs == unwrap_or(get(SUBS), Map_new)
        key == <<subscriber, subscription_id>>
        plans == unwrap_or(get(SPLAN), Map_new)
    IN  IF key \notin DOMAIN subs THEN Trap("subscription not found")
        ELSE IF ~subs[key].active THEN Trap("sub inactive")
        ELSE IF subs[key].plan_id \notin DOMAIN plans THEN Trap("plan not found")
        ELSE IF ~plans[subs[key].plan_id].active THEN Trap("plan inactive")
        ELSE IF ~is_due(subs[key], plans[subs[key].plan_id], now) THEN Trap("not due")
        ELSE IF get(TOKEN) = <<>> THEN Trap("Token")
        ELSE invoke_contract(transferOk,
                 <<invoker, plans[subs[key].plan_id].merchant,
                   plans[subs[key].plan_id].amount>>,
                 << <<"SPay", subscription_id>> >>,
                 instance,
                 set(instance, SUBS,
                     Map_set(subs, key,
                             [subs[key] EXCEPT !.last_payment = from_unix(now)])))

\* pub fn process_subscription_payment: last_payment is written after the
\* token call.
process_subscription_payment(invoker, subscriber, subscription_id, transferOk) ==
    LET subs == unwrap_or(get(SUBS), Map_new)
        key == <<subscriber, subscription_id>>
        plans == unwrap_or(get(SPLAN), Map_new)
    IN  IF key \notin DOMAIN subs THEN Trap("subscription not found")
        ELSE IF ~subs[key].active THEN Trap("sub inactive")
        ELSE IF subs[key].plan_id \notin DOMAIN plans THEN Trap("plan not found")
        ELSE IF ~plans[subs[key].plan_id].active THEN Trap("plan inactive")
        ELSE IF ~is_due(subs[key], plans[subs[key].plan_id], now) THEN Trap("not due")
        ELSE IF get(TOKEN) = <<>> THEN Trap("Token")
        ELSE invoke_contract(transferOk,
                 <<subscriber, plans[subs[key].plan_id].merchant,
                   plans[subs[key].plan_id].amount>>,
                 << <<"SPay", subscription_id>> >>,
                 instance,
                 set(instance, SUBS,
                     Map_set(subs, key,
                             [subs[key] EXCEPT !.last_payment = from_unix(now)])))

\* cancel_subscription with the record looked up by its id alone, under
\* whichever subscriber it is stored.
cancel_subscription_by_id(invoker, subscription_id) ==
    LET subs == unwrap_or(get(SUBS), Map_new)
        keys == {k \in DOMAIN subs : k[2] = subscription_id}
        key == CHOOSE k \in keys : TRUE
    IN  IF keys = {} THEN Trap("no sub")
        ELSE IF ~subs[key].active THEN Trap("already inactive")
        ELSE IF ~(subs[key].subscriber = invoker \/ is_merchant(invoker))
        THEN Trap("not authorized")
        ELSE Return(<<>>, << <<"SCnl", subscription_id>> >>,
                    set(instance, SUBS,
                        Map_set(subs, key, [subs[key] EXCEPT !.active = FALSE])))

\* pub fn cancel_subscription: the record is looked up under the invoker.
cancel_subscription(invoker, subscription_id) ==
    LET subs == unwrap_or(get(SUBS), Map_new)
        key == <<invoker, subscription_id>>
    IN  IF key \notin DOMAIN subs THEN Trap("no sub")
        ELSE IF ~subs[key].active THEN Trap("already inactive")
        ELSE IF ~(subs[key].subscriber = invoker \/ is_merchant(invoker))
        THEN Trap("not authorized")
        ELSE Return(<<>>, << <<"SCnl", subscription_id>> >>,
                    set(instance, SUBS,
                        Map_set(subs, key, [subs[key] EXCEPT !.active = FALSE])))

\* ---------------------------------------------------------------- actions
\* The ids an outcome publishes under an event topic.
published(out, topic) ==
    {out.events[i][2] : i \in {j \in 1 .. Len(out.events) : out.events[j][1] = topic}}

\* One invocation: the host keeps the storage of the outcome.
Invoke(out) ==
    /\ instance' = out.instance
    /\ issued' = [links |-> issued.links \cup published(out, "PLCr"),
                  plans |-> issued.plans \cup published(out, "SPCr"),
                  subs |-> issued.subs \cup published(out, "Subd")]
    /\ UNCHANGED charges

Init ==
    /\ instance = [k \in {} |-> {}]
    /\ now = 0
    /\ issued = [links |-> {}, plans |-> {}, subs |-> {}]
    /\ charges = Map_new

Call_init(invoker, token) ==
    /\ Invoke(init(invoker, token))
    /\ UNCHANGED now

Call_add_merchant(invoker, merchant) ==
    /\ Invoke(add_merchant(invoker, merchant))
    /\ UNCHANGED now

Call_remove_merchant(invoker, merchant) ==
    /\ Invoke(remove_merchant(invoker, merchant))
    /\ UNCHANGED now

Call_create_payment_link(invoker, amount, description) ==
    /\ unwrap_or(get(LCTR), 0) < MaxCtr
    /\ Invoke(create_payment_link(invoker, amount, description))
    /\ UNCHANGED now

Call_process_payment(invoker, link_id, transferOk) ==
    /\ Invoke(process_payment(invoker, link_id, transferOk))
    /\ UNCHANGED now

Call_deactivate_payment_link(invoker, link_id) ==
    /\ Invoke(deactivate_payment_link(invoker, link_id))
    /\ UNCHANGED now

Call_create_subscription_plan(invoker, amount, interval, name) ==
    /\ unwrap_or(get(PCTR), 0) < MaxCtr
    /\ Invoke(create_subscription_plan(invoker, amount, interval, name))
    /\ UNCHANGED now

Call_deactivate_subscription_plan(invoker, plan_id) ==
    /\ Invoke(deactivate_subscription_plan(invoker, plan_id))
    /\ UNCHANGED now

Call_subscribe(invoker, plan_id, transferOk) ==
    /\ unwrap_or(get(SCTR), 0) < MaxCtr
    /\ Invoke(subscribe(invoker, plan_id, transferOk))
    /\ UNCHANGED now

Call_process_subscription_payment(invoker, subscriber, subscription_id, transferOk) ==
    /\ Invoke(process_subscription_payment(invoker, subscriber, subscription_id,
                                           transferOk))
    /\ UNCHANGED now

Call_cancel_subscription(invoker, subscription_id) ==
    /\ Invoke(cancel_subscription(invoker, subscription_id))
    /\ UNCHANGED now

\* The ledger closes: the timestamp read by env.ledger().timestamp() grows.
Tick ==
    /\ now < MaxTime
    /\ now' = now + 1
    /\ UNCHANGED <<instance, issued, charges>>

Next ==
    \/ \E invoker \in Address, token \in Tokens : Call_init(invoker, token)
    \/ \E invoker \in Address, merchant \in Address :
            Call_add_merchant(invoker, merchant)
    \/ \E invoker \in Address, merchant \in Address :
            Call_remove_merchant(invoker, merchant)
    \/ \E invoker \in Address, amount \in Amounts, description \in Symbols :
            Call_create_payment_link(invoker, amount, description)
    \/ \E invoker \in Address, link_id \in Ids, transferOk \in BOOLEAN :
            Call_process_payment(invoker, link_id, transferOk)
    \/ \E invoker \in Address, link_id \in Ids :
            Call_deactivate_payment_link(invoker, link_id)
    \/ \E invoker \in Address, amount \in Amounts, interval \in Intervals,
          name \in Symbols :
            Call_create_subscription_plan(invoker, amount, interval, name)
    \/ \E invoker \in Address, plan_id \in Ids :
            Call_deactivate_subscription_plan(invoker, plan_id)
    \/ \E invoker \in Address, plan_id \in Ids, transferOk \in BOOLEAN :
            Call_subscribe(invoker, plan_id, transferOk)
    \/ \E invoker \in Address, subscriber \in Address, subscription_id \in Ids,
          transferOk \in BOOLEAN :
            Call_process_subscription_payment(invoker, subscriber,
                                              subscription_id, transferOk)
    \/ \E invoker \in Address, subscription_id \in Ids :
            Call_cancel_subscription(invoker, subscription_id)
    \/ Tick

Spec == Init /\ [][Next]_vars

\* ------------------------------------------------- billing specification
\* The registry, plan and subscription entry points, observed by the
\* transfers the token contract has made for each stored subscription.  The
\* three link entry points are left out: they read and write LCTR and PLINK
\* only, which no other handler reads.  Plans of two different intervals can
\* be created.
BillingIntervals == {0, 1, 2}

\* One invocation: the host keeps the storage of the outcome, and a
\* subscription payment that succeeded is recorded with its ledger time.
Billed(out) ==
    /\ instance' = out.instance
    /\ charges' =
          IF published(out, "SPay") = {} THEN charges
          ELSE LET key == <<out.transfers[1][1],
                            CHOOSE id \in published(out, "SPay") : TRUE>>
                   sub == out.instance[SUBS][key]
               IN  Map_set(charges, key,
                           IF published(out, "Subd") # {}
                           THEN [interval |->
                                     out.instance[SPLAN][sub.plan_id].interval,
                                 times |-> <<now>>]
                           ELSE [charges[key] EXCEPT !.times = Append(@, now)])
    /\ UNCHANGED issued

Bill_init(invoker, token) ==
    /\ Billed(init(invoker, token))
    /\ UNCHANGED now

Bill_add_merchant(invoker, merchant) ==
    /\ Billed(add_merchant(invoker, merchant))
    /\ UNCHANGED now

Bill_remove_merchant(invoker, merchant) ==
    /\ Billed(remove_merchant(invoker, merchant))
    /\ UNCHANGED now

Bill_create_subscription_plan(invoker, amount, interval, name) ==
    /\ unwrap_or(get(PCTR), 0) < MaxCtr
    /\ Billed(create_subscription_plan(invoker, amount, interval, name))
    /\ UNCHANGED now

Bill_deactivate_subscription_plan(invoker, plan_id) ==
    /\ Billed(deactivate_subscription_plan(invoker, plan_id))
    /\ UNCHANGED now

Bill_subscribe(invoker, plan_id, transferOk) ==
    /\ unwrap_or(get(SCTR), 0) < MaxCtr
    /\ Billed(subscribe(invoker, plan_id, transferOk))
    /\ UNCHANGED now

Bill_process_subscription_payment(invoker, subscriber, subscription_id, transferOk) ==
    /\ Billed(process_subscription_payment(invoker, subscriber, subscription_id,
                                           transferOk))
    /\ UNCHANGED now

Bill_cancel_subscription(invoker, subscription_id) ==
    /\ Billed(cancel_subscription(invoker, subscription_id))
    /\ UNCHANGED now

BillingNext ==
    \/ \E invoker \in Address, token \in Tokens : Bill_init(invoker, token)
    \/ \E invoker \in Address, merchant \in Address :
            Bill_add_merchant(invoker, merchant)
    \/ \E invoker \in Address, merchant \in Address :
            Bill_remove_merchant(invoker, merchant)
    \/ \E invoker \in Address, amount \in Amounts, interval \in BillingIntervals,
          name \in Symbols :
            Bill_create_subscription_plan(invoker, amount, interval, name)
    \/ \E invoker \in Address, plan_id \in Ids :
            Bill_deactivate_subscription_plan(invoker, plan_id)
    \/ \E invoker \in Address, plan_id \in Ids, transferOk \in BOOLEAN :
            Bill_subscribe(invoker, plan_id, transferOk)
    \/ \E invoker \in Address, subscriber \in Address, subscription_id \in Ids,
          transferOk \in BOOLEAN :
            Bill_process_subscription_payment(invoker, subscriber,
                                              subscription_id, transferOk)
    \/ \E invoker \in Address, subscription_id \in Ids :
            Bill_cancel_subscription(invoker, subscription_id)
    \/ Tick

BillingSpec == Init /\ [][BillingNext]_vars

\* ================================================================ properties
\* The stored collections, read as the handlers read them.
Merchants == unwrap_or(get(MERCH), <<>>)
Links == unwrap_or(get(PLINK), Map_new)
Plans == unwrap_or(get(SPLAN), Map_new)
Subscriptions == unwrap_or(get(SUBS), Map_new)
Initialized == OWNER \in DOMAIN instance

\* The invokers of the permissionless entry points: the addresses that act
\* on the contract, and one that never holds a role in it.
AnyAddress == Address \cup {"a3"}

\* ---------------------------------------------------------------- C1
\* C1: once init has succeeded, every later init invocation fails, and no
\* step changes the stored owner or the stored payment token.
C1_InitOnce ==
    [][Initialized =>
          /\ \A invoker \in Address, token \in Tokens :
                init(invoker, token).result # "ok"
          /\ instance'[OWNER] = instance[OWNER]
          /\ instance'[TOKEN] = instance[TOKEN]]_vars

\* ---------------------------------------------------------------- C2
\* C2: the id a successful create_payment_link (create_subscription_plan)
\* publishes is strictly greater than every id issued before in the link
\* (plan) namespace, so no id is issued twice.
C2_IdsStrictlyIncrease ==
    /\ \A invoker \in Address, amount \in Amounts, description \in Symbols :
          LET out == create_payment_link(invoker, amount, description)
          IN  out.result = "ok" =>
                \A id \in published(out, "PLCr") : \A old \in issued.links : id > old
    /\ \A invoker \in Address, amount \in Amounts, interval \in Intervals,
          name \in Symbols :
          LET out == create_subscription_plan(invoker, amount, interval, name)
          IN  out.result = "ok" =>
                \A id \in published(out, "SPCr") : \A old \in issued.plans : id > old

\* ---------------------------------------------------------------- C3
\* C3: active is a one-way latch: an entity stored inactive under a link id,
\* a plan id or a (subscriber, subscription id) key is never stored active
\* under that key afterwards.
C3_ActiveLatch ==
    [][/\ \A id \in DOMAIN Links : ~Links[id].active => ~Links'[id].active
       /\ \A id \in DOMAIN Plans : ~Plans[id].active => ~Plans'[id].active
       /\ \A key \in DOMAIN Subscriptions :
             ~Subscriptions[key].active => ~Subscriptions'[key].active]_vars

\* ---------------------------------------------------------------- C4
\* C4: cancel_subscription(invoker, id) succeeds on an existing active
\* subscription with that id whenever the invoker is its subscriber or a
\* registered merchant, and leaves that subscription inactive.
C4_MerchantCanCancel ==
    \A subscriber \in Address, id \in Ids, invoker \in Address :
        (/\ <<subscriber, id>> \in DOMAIN Subscriptions
         /\ Subscriptions[<<subscriber, id>>].active
         /\ (invoker = subscriber \/ is_merchant(invoker)))
        => LET out == cancel_subscription(invoker, id)
           IN  /\ out.result = "ok"
               /\ ~out.instance[SUBS][<<subscriber, id>>].active

\* ---------------------------------------------------------------- C5
\* C5: for an active subscription bound to an existing active plan,
\* process_subscription_payment fails "not due" with no transfer and
\* last_payment unchanged when now < last_payment + interval; when
\* now >= last_payment + interval and the token transfer succeeds it succeeds
\* and stores last_payment = now.
C5_DueBoundary ==
    \A invoker \in Address, subscriber \in Address, id \in Ids, transferOk \in BOOLEAN :
        LET key == <<subscriber, id>> IN
        (/\ key \in DOMAIN Subscriptions
         /\ Subscriptions[key].active
         /\ Subscriptions[key].plan_id \in DOMAIN Plans
         /\ Plans[Subscriptions[key].plan_id].active)
        => LET out == process_subscription_payment(invoker, subscriber, id, transferOk)
               due == Subscriptions[key].last_payment.unix
                        + Plans[Subscriptions[key].plan_id].interval
           IN  /\ now < due =>
                     /\ out.result = "not due"
                     /\ out.transfers = <<>>
                     /\ out.instance = instance
               /\ (now >= due /\ transferOk) =>
                     /\ out.result = "ok"
                     /\ out.instance[SUBS][key].last_payment.unix = now
                     /\ out.instance[SUBS][key].active

\* A recurring payment has been taken exactly at last_payment + interval,
\* and the subscription is again not yet due.
C5_Witness ==
    \E key \in DOMAIN Subscriptions :
        /\ Subscriptions[key].active
        /\ Subscriptions[key].plan_id \in DOMAIN Plans
        /\ Plans[Subscriptions[key].plan_id].active
        /\ Subscriptions[key].last_payment.unix
             = Subscriptions[key].start_time.unix
                 + Plans[Subscriptions[key].plan_id].interval
        /\ now = Subscriptions[key].last_payment.unix
        /\ process_subscription_payment(key[1], key[1], key[2], TRUE).result = "not due"

\* ---------------------------------------------------------------- C6
\* C6: a successful subscribe on an existing active plan makes exactly one
\* transfer (invoker -> plan.merchant, plan.amount), allocates an id never
\* issued before and stores under (invoker, id) an active subscription with
\* start_time = last_payment = now; on an unknown or inactive plan it fails
\* without a transfer.
C6_Subscribe ==
    \A invoker \in Address, plan_id \in Ids, transferOk \in BOOLEAN :
        LET out == subscribe(invoker, plan_id, transferOk)
            id == unwrap_or(get(SCTR), 0) + 1
        IN  /\ (plan_id \notin DOMAIN Plans \/ ~Plans[plan_id].active) =>
                  /\ out.result # "ok"
                  /\ out.transfers = <<>>
                  /\ out.instance = instance
            /\ out.result = "ok" =>
                  /\ out.transfers
                       = << <<invoker, Plans[plan_id].merchant, Plans[plan_id].amount>> >>
                  /\ published(out, "Subd") = {id}
                  /\ id \notin issued.subs
                  /\ <<invoker, id>> \notin DOMAIN Subscriptions
                  /\ out.instance[SUBS][<<invoker, id>>]
                       = [subscriber |-> invoker, plan_id |-> plan_id,
                          start_time |-> from_unix(now),
                          last_payment |-> from_unix(now), active |-> TRUE]

\* ---------------------------------------------------------------- C7
\* C7: when the token transfer fails, subscribe, process_payment and
\* process_subscription_payment do not succeed and leave the instance storage
\* exactly as it was (counter not advanced, no record stored, last_payment
\* unchanged).
C7_TransferFailureAborts ==
    /\ \A invoker \in Address, plan_id \in Ids :
          LET out == subscribe(invoker, plan_id, FALSE)
          IN  out.result # "ok" /\ out.instance = instance
    /\ \A invoker \in Address, link_id \in Ids :
          LET out == process_payment(invoker, link_id, FALSE)
          IN  out.result # "ok" /\ out.instance = instance
    /\ \A invoker \in Address, subscriber \in Address, id \in Ids :
          LET out == process_subscription_payment(invoker, subscriber, id, FALSE)
          IN  out.result # "ok" /\ out.instance = instance

\* The token call is reached, and fails, in each of the three handlers.
C7_Witness ==
    /\ \E invoker \in Address, plan_id \in Ids :
          subscribe(invoker, plan_id, FALSE).result = "transfer failed"
    /\ \E invoker \in Address, link_id \in Ids :
          process_payment(invoker, link_id, FALSE).result = "transfer failed"
    /\ \E invoker \in Address, subscriber \in Address, id \in Ids :
          process_subscription_payment(invoker, subscriber, id, FALSE).result
            = "transfer failed"

\* ---------------------------------------------------------------- C8
\* C8: process_payment on a stored inactive link fails "inactive link", on an
\* unknown link id fails "link not found"; in both cases it makes no token
\* call and writes nothing, whoever the payer is.
C8_InactiveLinkRejected ==
    \A invoker \in Address, link_id \in Ids, transferOk \in BOOLEAN :
        LET out == process_payment(invoker, link_id, transferOk)
        IN  /\ link_id \notin DOMAIN Links =>
                  /\ out.result = "link not found"
                  /\ out.transfers = <<>>
                  /\ out.instance = instance
            /\ (link_id \in DOMAIN Links /\ ~Links[link_id].active) =>
                  /\ out.result = "inactive link"
                  /\ out.transfers = <<>>
                  /\ out.instance = instance

\* A deactivated link is stored while the token is configured.
C8_Witness ==
    /\ TOKEN \in DOMAIN instance
    /\ \E link_id \in DOMAIN Links :
          /\ ~Links[link_id].active
          /\ process_payment(Links[link_id].merchant, link_id, TRUE).result
               = "inactive link"

C10_CreateValidated ==
    /\ \A id \in DOMAIN Links : Links[id].amount > 0
    /\ \A id \in DOMAIN Plans : Plans[id].amount > 0 /\ Plans[id].interval > 0
    /\ \A invoker \in Address, amount \in Amounts, description \in Symbols :
          LET out == create_payment_link(invoker, amount, description)
              id == unwrap_or(get(LCTR), 0) + 1
          IN  IF contains(Merchants, invoker) /\ amount > 0
              THEN /\ out.result = "ok"
                   /\ out.instance[PLINK][id].merchant = invoker
              ELSE /\ out.result # "ok"
                   /\ out.events = <<>>
                   /\ out.instance = instance
    /\ \A invoker \in Address, amount \in Amounts, interval \in Intervals,
          name \in Symbols :
          LET out == create_subscription_plan(invoker, amount, interval, name)
              id == unwrap_or(get(PCTR), 0) + 1
          IN  IF contains(Merchants, invoker) /\ amount > 0 /\ interval > 0
              THEN /\ out.result = "ok"
                   /\ out.instance[SPLAN][id].merchant = invoker
              ELSE /\ out.result # "ok"
                   /\ out.events = <<>>
                   /\ out.instance = instance

\* A link and a plan are stored, and a registered merchant's creation with
\* amount 0 is being refused.
C10_Witness ==
    /\ DOMAIN Links # {}
    /\ DOMAIN Plans # {}
    /\ \E invoker \in Address :
          /\ contains(Merchants, invoker)
          /\ create_payment_link(invoker, 0, "sym").result = "amount>0"
          /\ create_subscription_plan(invoker, 1, 0, "sym").result = "interval>0"

\* ---------------------------------------------------------------- C11
\* C11: remove_merchant changes nothing but the merchant registry (links,
\* plans, subscriptions, their active flags and the counters stay as they
\* are), so an active link or plan whose merchant is no longer registered is
\* still payable: process_payment succeeds and pays the link's merchant, and
\* subscribe and a due process_subscription_payment pay the plan's merchant.
C11_RemoveMerchantFrame ==
    /\ \A invoker \in Address, merchant \in Address :
          LET out == remove_merchant(invoker, merchant)
          IN  /\ DOMAIN out.instance \ {MERCH} = DOMAIN instance \ {MERCH}
              /\ \A k \in DOMAIN instance \ {MERCH} : out.instance[k] = instance[k]
    /\ \A id \in DOMAIN Links :
          (Links[id].active /\ ~contains(Merchants, Links[id].merchant)) =>
              \A payer \in Address :
                  LET out == process_payment(payer, id, TRUE)
                  IN  /\ out.result = "ok"
                      /\ out.transfers =
                            << <<payer, Links[id].merchant, Links[id].amount>> >>
    /\ \A id \in DOMAIN Plans :
          (Plans[id].active /\ ~contains(Merchants, Plans[id].merchant)) =>
              /\ \A subscriber \in Address :
                    LET out == subscribe(subscriber, id, TRUE)
                    IN  /\ out.result = "ok"
                        /\ out.transfers =
                              << <<subscriber, Plans[id].merchant, Plans[id].amount>> >>
              /\ \A key \in DOMAIN Subscriptions :
                    (/\ Subscriptions[key].plan_id = id
                     /\ Subscriptions[key].active
                     /\ is_due(Subscriptions[key], Plans[id], now)) =>
                        \A invoker \in Address :
                            LET out == process_subscription_payment(
                                           invoker, key[1], key[2], TRUE)
                            IN  /\ out.result = "ok"
                                /\ out.transfers =
                                      << <<key[1], Plans[id].merchant,
                                           Plans[id].amount>> >>

\* The link and the plan created last since init are active, and their
\* merchant has been removed from the registry since.
C11_Witness ==
    /\ unwrap_or(get(LCTR), 0) \in DOMAIN Links
    /\ unwrap_or(get(PCTR), 0) \in DOMAIN Plans
    /\ LET link == Links[unwrap_or(get(LCTR), 0)]
           plan == Plans[unwrap_or(get(PCTR), 0)]
       IN  /\ link.active /\ plan.active
           /\ link.merchant = plan.merchant
           /\ ~contains(Merchants, link.merchant)
           /\ remove_merchant(instance[OWNER], link.merchant).result = "not authorized"

\* ---------------------------------------------------------------- C12
\* C12: no step changes the merchant stored in a link or a plan, or the
\* subscriber or the plan_id stored under a (subscriber, id) key, and no
\* step removes such an entry.
C12_OwningPartyImmutable ==
    [][/\ \A id \in DOMAIN Links :
             /\ id \in DOMAIN Links'
             /\ Links'[id].merchant = Links[id].merchant
       /\ \A id \in DOMAIN Plans :
             /\ id \in DOMAIN Plans'
             /\ Plans'[id].merchant = Plans[id].merchant
       /\ \A key \in DOMAIN Subscriptions :
             /\ key \in DOMAIN Subscriptions'
             /\ Subscriptions'[key].subscriber = Subscriptions[key].subscriber
             /\ Subscriptions'[key].plan_id = Subscriptions[key].plan_id]_vars

\* ---------------------------------------------------------------- C13
\* C13: process_payment leaves the whole storage as it is, whether it
\* succeeds or not, so a paid link stays active with its merchant and amount;
\* and every stored active link is payable by any payer, the payment being
\* exactly one transfer of the link's amount from the payer to the link's
\* merchant.
C13_PaymentKeepsState ==
    /\ \A payer \in AnyAddress, link_id \in Ids, transferOk \in BOOLEAN :
          process_payment(payer, link_id, transferOk).instance = instance
    /\ \A id \in DOMAIN Links :
          Links[id].active =>
              \A payer \in AnyAddress :
                  LET out == process_payment(payer, id, TRUE)
                  IN  /\ out.result = "ok"
                      /\ out.transfers =
                            << <<payer, Links[id].merchant, Links[id].amount>> >>
                      /\ out.instance[PLINK][id] = Links[id]

\* An active link is stored, and a payer who is neither its merchant nor the
\* owner pays it.
C13_Witness ==
    \E id \in DOMAIN Links, payer \in AnyAddress :
        /\ Links[id].active
        /\ payer # Links[id].merchant
        /\ payer # instance[OWNER]
        /\ process_payment(payer, id, TRUE).result = "ok"
        /\ Len(process_payment(payer, id, TRUE).transfers) = 1

\* ---------------------------------------------------------------- C14
\* C14: deactivate_payment_link (deactivate_subscription_plan) succeeds
\* exactly when the id is stored, the invoker is the merchant stored in the
\* entity and the entity is active, registered or not; then it clears the
\* active flag.  Every other call is rejected and changes nothing: an
\* invoker who is not the stored merchant (the owner and registered merchants
\* included) is refused, and the stored merchant's call on an inactive entity
\* fails as already inactive.
C14_DeactivateByStoredMerchant ==
    /\ \A invoker \in AnyAddress, id \in Ids :
          LET out == deactivate_payment_link(invoker, id)
          IN  IF id \in DOMAIN Links /\ Links[id].merchant = invoker
                    /\ Links[id].active
              THEN /\ out.result = "ok"
                   /\ out.instance[PLINK][id] = [Links[id] EXCEPT !.active = FALSE]
              ELSE /\ out.instance = instance
                   /\ out.result =
                         IF id \notin DOMAIN Links THEN "no link"
                         ELSE IF Links[id].merchant # invoker THEN "not merchant"
                         ELSE "already inactive"
    /\ \A invoker \in AnyAddress, id \in Ids :
          LET out == deactivate_subscription_plan(invoker, id)
          IN  IF id \in DOMAIN Plans /\ Plans[id].merchant = invoker
                    /\ Plans[id].active
              THEN /\ out.result = "ok"
                   /\ out.instance[SPLAN][id] = [Plans[id] EXCEPT !.active = FALSE]
              ELSE /\ out.instance = instance
                   /\ out.result =
                         IF id \notin DOMAIN Plans THEN "no plan"
                         ELSE IF Plans[id].merchant # invoker THEN "not merchant"
                         ELSE "already inactive"

\* The newest link is active and its merchant, removed from the registry
\* since, may deactivate it, while the owner, a registered merchant other
\* than the link's, is refused; and the newest plan has been deactivated, so
\* that its merchant's second deactivation is refused.
C14_Witness ==
    /\ unwrap_or(get(LCTR), 0) \in DOMAIN Links
    /\ unwrap_or(get(PCTR), 0) \in DOMAIN Plans
    /\ LET id == unwrap_or(get(LCTR), 0)
           pid == unwrap_or(get(PCTR), 0)
       IN  /\ Links[id].active
           /\ ~contains(Merchants, Links[id].merchant)
           /\ deactivate_payment_link(Links[id].merchant, id).result = "ok"
           /\ instance[OWNER] # Links[id].merchant
           /\ contains(Merchants, instance[OWNER])
           /\ deactivate_payment_link(instance[OWNER], id).result = "not merchant"
           /\ ~Plans[pid].active
           /\ deactivate_subscription_plan(Plans[pid].merchant, pid).result
                 = "already inactive"

\* ---------------------------------------------------------------- C15
\* C15: deactivate_subscription_plan changes nothing but the active flag of
\* that plan, so the subscriptions bound to it keep their active flag,
\* start_time and last_payment.  While a plan is inactive, subscribe to it
\* fails as plan not active, process_subscription_payment for an active
\* subscription bound to it fails as plan inactive (for a cancelled one, as
\* sub inactive), none of them transfers or writes anything, and an active
\* subscription bound to it can still be cancelled by its subscriber.  This
\* lasts: no step makes the plan stored under a deactivated id active again.
C15_DeactivatePlanFrame ==
    [][/\ \A invoker \in AnyAddress, id \in Ids :
             LET out == deactivate_subscription_plan(invoker, id)
             IN  /\ DOMAIN out.instance = DOMAIN instance
                 /\ \A k \in DOMAIN instance \ {SPLAN} :
                       out.instance[k] = instance[k]
                 /\ out.result = "ok" =>
                       /\ DOMAIN out.instance[SPLAN] = DOMAIN Plans
                       /\ \A other \in DOMAIN Plans \ {id} :
                             out.instance[SPLAN][other] = Plans[other]
                       /\ [out.instance[SPLAN][id] EXCEPT !.active = TRUE]
                             = Plans[id]
       /\ \A id \in DOMAIN Plans :
             ~Plans[id].active =>
                 /\ \A subscriber \in AnyAddress, transferOk \in BOOLEAN :
                       LET out == subscribe(subscriber, id, transferOk)
                       IN  /\ out.result = "plan not active"
                           /\ out.transfers = <<>>
                           /\ out.instance = instance
                 /\ \A key \in DOMAIN Subscriptions :
                       Subscriptions[key].plan_id = id =>
                           /\ \A invoker \in AnyAddress, transferOk \in BOOLEAN :
                                 LET out == process_subscription_payment(
                                                invoker, key[1], key[2], transferOk)
                                 IN  /\ out.result = IF Subscriptions[key].active
                                                     THEN "plan inactive"
                                                     ELSE "sub inactive"
                                     /\ out.transfers = <<>>
                                     /\ out.instance = instance
                           /\ Subscriptions[key].active =>
                                 cancel_subscription(key[1], key[2]).result = "ok"
                 /\ id \in DOMAIN Plans'
                 /\ ~Plans'[id].active]_vars

\* ---------------------------------------------------------------- C16
\* C16: for a stored subscription that is active, on an active plan and due,
\* process_subscription_payment succeeds for every invoker (the subscriber,
\* the plan's merchant, anyone else), and its one transfer takes the plan's
\* amount from the subscription's subscriber to the plan's merchant.  The
\* outcome of the call is the same whoever invokes it.
C16_PermissionlessTrigger ==
    /\ \A key \in DOMAIN Subscriptions :
          LET sub == Subscriptions[key]
          IN  (/\ sub.active
               /\ sub.plan_id \in DOMAIN Plans
               /\ Plans[sub.plan_id].active
               /\ is_due(sub, Plans[sub.plan_id], now)) =>
                  \A invoker \in AnyAddress :
                      LET out == process_subscription_payment(
                                     invoker, key[1], key[2], TRUE)
                      IN  /\ out.result = "ok"
                          /\ out.transfers =
                                << <<sub.subscriber, Plans[sub.plan_id].merchant,
                                     Plans[sub.plan_id].amount>> >>
    /\ \A invoker \in AnyAddress, subscriber \in Address, id \in Ids,
          transferOk \in BOOLEAN :
          process_subscription_payment(invoker, subscriber, id, transferOk)
              = process_subscription_payment(subscriber, subscriber, id, transferOk)

\* The subscription created last since init is active and due on an active
\* plan of another address, and an address that is neither of the two
\* triggers its payment.
C16_Witness ==
    \E key \in DOMAIN Subscriptions :
        /\ key[2] = unwrap_or(get(SCTR), 0)
        /\ Subscriptions[key].plan_id = unwrap_or(get(PCTR), 0)
        /\ Plans[Subscriptions[key].plan_id].merchant # key[1]
        /\ LET out == process_subscription_payment("a3", key[1], key[2], TRUE)
           IN  /\ out.result = "ok"
               /\ out.transfers[1][1] = key[1]
               /\ out.instance[SUBS][key].last_payment = from_unix(now)
               /\ Subscriptions[key].last_payment # from_unix(now)

\* ---------------------------------------------------------------- C17
\* C17: the registry holds no address twice; add_merchant of a registered
\* address and remove_merchant of an unregistered one fail and change
\* nothing; a successful remove_merchant(m) leaves exactly the other members;
\* and an address becomes a member only by a successful add_merchant of it
\* and stops being one only by a successful remove_merchant of it.
C17_RegistryIsASet ==
    [][/\ \A i \in 1 .. Len(Merchants), j \in 1 .. Len(Merchants) :
             Merchants[i] = Merchants[j] => i = j
       /\ \A invoker \in Address, a \in Address :
             /\ contains(Merchants, a) =>
                   /\ add_merchant(invoker, a).result # "ok"
                   /\ add_merchant(invoker, a).instance = instance
             /\ ~contains(Merchants, a) =>
                   /\ remove_merchant(invoker, a).result # "ok"
                   /\ remove_merchant(invoker, a).instance = instance
             /\ remove_merchant(invoker, a).result = "ok" =>
                   LET left == remove_merchant(invoker, a).instance[MERCH]
                   IN  /\ {left[i] : i \in 1 .. Len(left)}
                             = {Merchants[i] : i \in 1 .. Len(Merchants)} \ {a}
                       /\ Len(left) = Len(Merchants) - 1
       /\ \A a \in Address :
             /\ (~contains(Merchants, a) /\ contains(Merchants', a)) =>
                   /\ Initialized
                   /\ add_merchant(instance[OWNER], a).result = "ok"
                   /\ instance' = add_merchant(instance[OWNER], a).instance
             /\ (contains(Merchants, a) /\ ~contains(Merchants', a)) =>
                   /\ Initialized
                   /\ remove_merchant(instance[OWNER], a).result = "ok"
                   /\ instance' = remove_merchant(instance[OWNER], a).instance]_vars

\* ---------------------------------------------------------------- C18
\* C18: in every state the stored link ids are 1 .. LCTR, the stored plan
\* ids are 1 .. PCTR, the ids of the stored (subscriber, id) keys are
\* 1 .. SCTR, and no subscription id is stored under two subscribers.
C18_IdsDense ==
    /\ DOMAIN Links = 1 .. unwrap_or(get(LCTR), 0)
    /\ DOMAIN Plans = 1 .. unwrap_or(get(PCTR), 0)
    /\ {key[2] : key \in DOMAIN Subscriptions} = 1 .. unwrap_or(get(SCTR), 0)
    /\ \A k1 \in DOMAIN Subscriptions, k2 \in DOMAIN Subscriptions :
          k1[2] = k2[2] => k1 = k2

\* ---------------------------------------------------------------- C19
\* C19: every subscription stored under the key (a, id) has subscriber a.
\* Hence a cancel_subscription whose lookup succeeds is invoked by the
\* stored subscriber: it never fails as not authorized, the merchant
\* alternative of its test is never what admits it, and it leaves every
\* subscription of another subscriber as it is.
C19_CancelOnlyOwnSubscription ==
    /\ \A key \in DOMAIN Subscriptions : Subscriptions[key].subscriber = key[1]
    /\ \A invoker \in AnyAddress, id \in Ids :
          LET out == cancel_subscription(invoker, id)
          IN  /\ <<invoker, id>> \in DOMAIN Subscriptions =>
                    Subscriptions[<<invoker, id>>].subscriber = invoker
              /\ out.result # "not authorized"
              /\ out.result = "ok" =>
                    /\ <<invoker, id>> \in DOMAIN Subscriptions
                    /\ DOMAIN out.instance[SUBS] = DOMAIN Subscriptions
              /\ \A key \in DOMAIN Subscriptions :
                    (Subscriptions[key].subscriber # invoker \/ key[2] # id) =>
                        out.instance[SUBS][key] = Subscriptions[key]

\* An active subscription is stored under a subscriber who is not a
\* registered merchant, the merchant of its plan is registered, and that
\* merchant's cancel of the id finds no record.
C19_Witness ==
    \E key \in DOMAIN Subscriptions :
        /\ Subscriptions[key].active
        /\ ~contains(Merchants, key[1])
        /\ LET merchant == Plans[Subscriptions[key].plan_id].merchant
           IN  /\ contains(Merchants, merchant)
               /\ cancel_subscription(merchant, key[2]).result = "no sub"
               /\ cancel_subscription(key[1], key[2]).result = "ok"

\* ---------------------------------------------------------------- C20
\* C20: the ledger clock never decreasing, every stored subscription has
\* start_time <= last_payment <= now; the transfers made for it, the first at
\* start_time by subscribe and the last at last_payment, are each at least
\* the interval of the plan it subscribed to after the one before, so that
\* last_payment never decreases and their number is at most
\* 1 + floor((now - start_time) / interval); and a cancelled subscription is
\* not charged.
C20_NoOverBilling ==
    \A key \in DOMAIN Subscriptions :
        LET sub == Subscriptions[key]
            times == charges[key].times
            interval == charges[key].interval
        IN  /\ to_unix(sub.start_time) <= to_unix(sub.last_payment)
            /\ to_unix(sub.last_payment) <= now
            /\ times[1] = to_unix(sub.start_time)
            /\ times[Len(times)] = to_unix(sub.last_payment)
            /\ \A i \in 1 .. Len(times) - 1 : times[i + 1] - times[i] >= interval
            /\ Len(times) <= 1 + ((now - to_unix(sub.start_time)) \div interval)
            /\ ~sub.active =>
                  \A invoker \in AnyAddress, transferOk \in BOOLEAN :
                      LET out == process_subscription_payment(
                                     invoker, key[1], key[2], transferOk)
                      IN  /\ out.result = "sub inactive"
                          /\ out.transfers = <<>>
====
